---- MODULE Spec2Model ----
(***************************************************************************)
(* Model of the OmniSchema HTML5 UI plugin (src/plugins/ui-html5.js):      *)
(* the type-level getHtml behaviours, the enumeration renderers, the       *)
(* field-level getHtml and the schema-level getHtmlFields / getHtmlForm.   *)
(*                                                                         *)
(* Markup is a sequence of elements [kind, attrs, text]; an attribute is   *)
(* [k, v] with v a sequence of text tokens whose concatenation is the      *)
(* attribute's text, so a control name is prefix tokens, field names and   *)
(* "." separators.                                                         *)
(***************************************************************************)
EXTENDS Integers, Sequences, FiniteSets, TLC

\* Bounds of the model.
MaxDepth == 2
MaxRegs == 4

----------------------------------------------------------------------------
\* JavaScript values.

NoObj == [x \in {} |-> 0]

Undefined == [t |-> "undefined", n |-> 0, s |-> "", b |-> FALSE, o |-> NoObj]

Null == [t |-> "null", n |-> 0, s |-> "", b |-> FALSE, o |-> NoObj]

Num(i) == [t |-> "num", n |-> i, s |-> "", b |-> FALSE, o |-> NoObj]

Str(x) == [t |-> "str", n |-> 0, s |-> x, b |-> FALSE, o |-> NoObj]

Bool(x) == [t |-> "bool", n |-> 0, s |-> "", b |-> x, o |-> NoObj]

Obj(f) == [t |-> "obj", n |-> 0, s |-> "", b |-> FALSE, o |-> f]

Obj1(k, val) == Obj([x \in {k} |-> val])

\* Decimal text of a number (the model's numbers are single digits).
NumStr(i) ==
  CASE i = 0 -> "0"
    [] i = 1 -> "1"
    [] i = 2 -> "2"
    [] i = 3 -> "3"
    [] i = 4 -> "4"
    [] i = 5 -> "5"
    [] i = 6 -> "6"
    [] i = 7 -> "7"
    [] i = 8 -> "8"
    [] OTHER -> "9"

\* String(value), as template literals and toString() produce it.
ToText(val) ==
  CASE val.t = "undefined" -> "undefined"
    [] val.t = "null" -> "null"
    [] val.t = "num" -> NumStr(val.n)
    [] val.t = "str" -> val.s
    [] val.t = "bool" -> (IF val.b THEN "true" ELSE "false")
    [] OTHER -> "[object Object]"

\* JavaScript truthiness.
Truthy(val) ==
  CASE val.t = "undefined" -> FALSE
    [] val.t = "null" -> FALSE
    [] val.t = "num" -> val.n # 0
    [] val.t = "str" -> val.s # ""
    [] val.t = "bool" -> val.b
    [] OTHER -> TRUE

IsNil(val) == val.t \in {"undefined", "null"}

\* value[name] on a value that is neither undefined nor null.
Prop(val, name) ==
  IF val.t = "obj" /\ name \in DOMAIN val.o THEN val.o[name] ELSE Undefined

\* _.get(object, name)
Get(val, name) == IF IsNil(val) THEN Undefined ELSE Prop(val, name)

----------------------------------------------------------------------------
\* Property objects: key/value pairs in insertion order.

P(k, val) == [k |-> k, v |-> val]

HasKey(props, k) == \E i \in 1..Len(props) : props[i].k = k

\* props[k] = val
SetProp(props, k, val) ==
  IF HasKey(props, k)
    THEN [i \in 1..Len(props) |-> IF props[i].k = k THEN P(k, val) ELSE props[i]]
    ELSE Append(props, P(k, val))

RECURSIVE Assign(_, _)
\* Object.assign(target, source)
Assign(target, source) ==
  IF source = <<>> THEN target
  ELSE Assign(SetProp(target, Head(source).k, Head(source).v), Tail(source))

Attr(k, toks) == [k |-> k, v |-> toks]

RECURSIVE AttribsOf(_, _)
AttribsOf(props, ignoreProps) ==
  IF props = <<>> THEN <<>>
  ELSE (IF Head(props).k = ignoreProps THEN <<>>
        ELSE <<Attr(Head(props).k, <<ToText(Head(props).v)>>)>>)
       \o AttribsOf(Tail(props), ignoreProps)

Blank == Attr(" ", <<>>)

\* OmniSchema.html5.getPropsAsAttributeString; hasProps is FALSE for a
\* missing props argument.
getPropsAsAttributeString(hasProps, props, ignoreProps) ==
  IF ~hasProps THEN <<Blank>> ELSE AttribsOf(props, ignoreProps)

El(kind, attrs, text) == [kind |-> kind, attrs |-> attrs, text |-> text]

NL == El("nl", <<>>, "")

----------------------------------------------------------------------------
\* Data types, with their resolved traits.

EV(val, label) == [value |-> val, label |-> label]

DataType(name, jsType, hasHtmlSpec, htmlSpec, hasEnum, enumValues) ==
  [kind |-> "datatype", name |-> name, jsType |-> jsType,
   hasHtmlSpec |-> hasHtmlSpec, htmlSpec |-> htmlSpec,
   hasEnum |-> hasEnum, enumValues |-> enumValues]

\* OmniSchema.html5.defineHtmlType: htmlSpec = { elementName } + props
defineHtmlType(name, jsType, elementName, props) ==
  DataType(name, jsType, TRUE,
           Assign(<<P("elementName", Str(elementName))>>, props), FALSE, <<>>)

WithEnum(dt, name, enumValues) ==
  [dt EXCEPT !.name = name, !.hasEnum = TRUE, !.enumValues = enumValues]

TString == defineHtmlType("String", "string", "input", <<P("type", Str("text"))>>)

TNumber == defineHtmlType("Number", "number", "input", <<P("type", Str("number"))>>)

TBoolean == defineHtmlType("Boolean", "boolean", "input", <<P("type", Str("checkbox"))>>)

TText == defineHtmlType("Text", "string", "textarea", <<P("rows", Num(3))>>)

\* A type defined through defineHtmlType with a required attribute of its own.
TMust == defineHtmlType("Must", "string", "input",
                        <<P("type", Str("text")), P("required", Str("required"))>>)

\* Enumerations: of text values without htmlSpec, of text values over String,
\* of numbers over Number, of booleans over Boolean.
TStatus == DataType("Status", "string", FALSE, <<>>, TRUE,
                    <<EV(Str("draft"), Str("Draft")), EV(Str("live"), Str("Live"))>>)

TCode == WithEnum(TString, "Code", <<EV(Str("1"), Str("One")), EV(Str("a"), Str("A"))>>)

TLevel == WithEnum(TNumber, "Level", <<EV(Num(1), Str("Low")), EV(Num(2), Str("High"))>>)

TYesNo == WithEnum(TBoolean, "YesNo", <<EV(Bool(TRUE), Str("Yes")), EV(Bool(FALSE), Str("No"))>>)

\* A type without any trait of the plugin.
TBare == DataType("Bare", "object", FALSE, <<>>, FALSE, <<>>)

TypeNames == {"String", "Text", "Must", "Status", "Code", "Level", "YesNo", "Bare"}

TypeOf(name) ==
  CASE name = "String" -> TString
    [] name = "Text" -> TText
    [] name = "Must" -> TMust
    [] name = "Status" -> TStatus
    [] name = "Code" -> TCode
    [] name = "Level" -> TLevel
    [] name = "YesNo" -> TYesNo
    [] OTHER -> TBare

----------------------------------------------------------------------------
\* Type-level registrations of OmniSchema.mixin({ onType: [...] }) and their
\* resolution.

NoPredicate == [kind |-> "none", key |-> "", value |-> ""]

KeyPredicate(k) == [kind |-> "key", key |-> k, value |-> ""]

\* { htmlSpec: { elementName: v } }
StructPredicate(v) == [kind |-> "struct", key |-> "htmlSpec", value |-> v]

Registration(pred, func) == [matches |-> pred, func |-> func]

HasTrait(type, k) ==
  CASE k = "enumValues" -> type.hasEnum
    [] k = "htmlSpec" -> type.hasHtmlSpec
    [] k = "jsType" -> TRUE
    [] k = "name" -> TRUE
    [] OTHER -> FALSE

ElementNameOf(type) ==
  LET S == {i \in 1..Len(type.htmlSpec) : type.htmlSpec[i].k = "elementName"}
  IN IF S = {} THEN Undefined ELSE type.htmlSpec[CHOOSE i \in S : TRUE].v

matches(type, pred) ==
  CASE pred.kind = "none" -> TRUE
    [] pred.kind = "key" -> HasTrait(type, pred.key)
    [] OTHER -> type.hasHtmlSpec /\ ElementNameOf(type) = Str(pred.value)

RECURSIVE ResolveFrom(_, _, _, _)
\* Walk the candidates in registration order; each matching candidate
\* replaces the one selected so far.
ResolveFrom(reg, type, i, selected) ==
  IF i > Len(reg) THEN selected
  ELSE ResolveFrom(reg, type, i + 1,
                   IF matches(type, reg[i].matches) THEN reg[i].func ELSE selected)

\* The getHtml behaviour of a type, "none" when no registration matches.
Resolve(reg, type) == ResolveFrom(reg, type, 1, "none")

\* The two registrations of the plugin, most specific first.
SwappedOnType ==
  << Registration(KeyPredicate("enumValues"), "enum"),
     Registration(StructPredicate("input"), "input") >>

\* The onType list of the plugin, in its order.
PluginOnType ==
  << Registration(StructPredicate("input"), "input"),
     Registration(KeyPredicate("enumValues"), "enum") >>

----------------------------------------------------------------------------
\* Fields and schemas.

Field(name, label, type, isRequired, uiExclude, presentation) ==
  [name |-> name, label |-> label, type |-> type, isRequired |-> isRequired,
   uiExclude |-> uiExclude, presentation |-> presentation]

Schema(collectionName, fields) ==
  [kind |-> "schema", collectionName |-> collectionName, fields |-> fields]

\* Outcome of a call: the markup returned, or the error thrown.  trace lists
\* the control names of the type behaviours invoked during the call.
Return(out, trace) == [ok |-> TRUE, out |-> out, err |-> "", trace |-> trace]

Throw(err, trace) == [ok |-> FALSE, out |-> <<>>, err |-> err, trace |-> trace]

\* The required flag of the field ignored.
RequiredAttrDropped(field) == <<>>

\* ${field.isRequired?'required="required" ':''}
RequiredAttr(field) ==
  IF field.isRequired THEN <<Attr("required", <<"required">>)>> ELSE <<>>

NameAttr(field, fieldNamePrefix) == Attr("name", fieldNamePrefix \o <<field.name>>)

----------------------------------------------------------------------------
\* Enumeration renderers.

RECURSIVE SelectOptions(_, _, _)
SelectOptions(enumValues, i, strDefault) ==
  IF i > Len(enumValues) THEN <<>>
  ELSE LET ev == enumValues[i] IN
       <<El("option",
            <<Attr("value", <<ToText(ev.value)>>)>>
              \o (IF ev.value = strDefault THEN <<Attr("selected", <<>>)>> ELSE <<>>),
            ToText(ev.label))>>
       \o SelectOptions(enumValues, i + 1, strDefault)

getEnumAsSelect(field, controlProps, defaultValue, fieldNamePrefix) ==
  LET strDefault == IF ~IsNil(defaultValue) THEN Str(ToText(defaultValue))
                    ELSE Undefined
  IN Return(<<El("select",
                 <<Attr("size", <<"1">>), NameAttr(field, fieldNamePrefix)>>
                   \o RequiredAttr(field), "")>>
            \o SelectOptions(field.type.enumValues, 1, strDefault)
            \o <<El("/select", <<>>, "")>>,
            <<>>)

RECURSIVE RadioInputs(_, _, _, _, _)
RadioInputs(field, controlProps, defaultValue, fieldNamePrefix, i) ==
  IF i > Len(field.type.enumValues) THEN <<>>
  ELSE LET ev == field.type.enumValues[i]
           typed == Assign(Assign(<<>>, controlProps), <<P("type", Str("radio"))>>)
           mergedProps == IF ev.value = defaultValue
                            THEN SetProp(typed, "checked", Bool(TRUE))
                            ELSE typed
       IN <<El("input",
               getPropsAsAttributeString(TRUE, mergedProps, "elementName")
                 \o RequiredAttr(field)
                 \o <<NameAttr(field, fieldNamePrefix),
                      Attr("value", <<ToText(ev.value)>>)>>, ""),
            El("nbsp", <<>>, ToText(ev.label))>>
          \o RadioInputs(field, controlProps, defaultValue, fieldNamePrefix, i + 1)

getEnumAsRadio(field, controlProps, defaultValue, fieldNamePrefix) ==
  Return(RadioInputs(field, controlProps, defaultValue, fieldNamePrefix, 1), <<>>)

getEnumAsCheckbox(field, controlProps, defaultValue, fieldNamePrefix) ==
  LET typed == Assign(Assign(<<>>, controlProps), <<P("type", Str("checkbox"))>>)
      mergedProps == IF Truthy(defaultValue)
                       THEN SetProp(typed, "checked", Bool(TRUE))
                       ELSE typed
  IN Return(<<El("input",
                 getPropsAsAttributeString(TRUE, mergedProps, "elementName")
                   \o RequiredAttr(field)
                   \o <<NameAttr(field, fieldNamePrefix)>>, "")>>,
            <<>>)

\* getBoolAsCheckbox is not defined anywhere in the plugin: evaluating the
\* call throws a ReferenceError.
getBoolAsCheckbox(field, controlProps, defaultValue, fieldNamePrefix) ==
  Throw("ReferenceError", <<>>)

----------------------------------------------------------------------------
\* Type behaviours (onType).

\* matches { htmlSpec: { elementName: 'input' } }
inputGetHtml(type, field, controlProps, defaultValue, fieldNamePrefix) ==
  LET props == IF defaultValue.t # "undefined"
                 THEN SetProp(controlProps, "value", defaultValue)
                 ELSE controlProps
      mergedProps == Assign(Assign(<<>>, type.htmlSpec), props)
  IN Return(<<El("input",
                 getPropsAsAttributeString(TRUE, mergedProps, "elementName")
                   \o RequiredAttr(field)
                   \o <<NameAttr(field, fieldNamePrefix)>>, "")>>,
            <<>>)

\* The checkbox hint dispatched without looking at the type's jsType, an
\* unknown hint rendered as radio inputs.
enumGetHtmlUnchecked(type, field, controlProps, defaultValue, fieldNamePrefix) ==
  LET presentation == field.presentation
      merged == Assign(Assign(<<>>, type.htmlSpec), controlProps)
  IN IF Truthy(presentation) /\ presentation = Str("select")
       THEN getEnumAsSelect(field, merged, defaultValue, fieldNamePrefix)
     ELSE IF Truthy(presentation) /\ presentation = Str("checkbox")
       THEN getBoolAsCheckbox(field, merged, defaultValue, fieldNamePrefix)
     ELSE IF Truthy(presentation)
       THEN getEnumAsRadio(field, merged, defaultValue, fieldNamePrefix)
     ELSE getEnumAsSelect(field, merged, defaultValue, fieldNamePrefix)

\* matches 'enumValues'
enumGetHtml(type, field, controlProps, defaultValue, fieldNamePrefix) ==
  LET presentation == field.presentation
      merged == Assign(Assign(<<>>, type.htmlSpec), controlProps)
  IN IF Truthy(presentation) /\ presentation = Str("select")
       THEN getEnumAsSelect(field, merged, defaultValue, fieldNamePrefix)
     ELSE IF Truthy(presentation) /\ presentation = Str("radio")
       THEN getEnumAsRadio(field, merged, defaultValue, fieldNamePrefix)
     ELSE IF Truthy(presentation) /\ presentation = Str("checkbox")
             /\ field.type.jsType = "boolean"
       THEN getBoolAsCheckbox(field, merged, defaultValue, fieldNamePrefix)
     ELSE getEnumAsSelect(field, merged, defaultValue, fieldNamePrefix)

\* type.getHtml(field, controlProps, defaultValue, fieldNamePrefix) for the
\* behaviour installed on the type.
typeGetHtml(func, type, field, controlProps, defaultValue, fieldNamePrefix) ==
  LET r == IF func = "input"
             THEN inputGetHtml(type, field, controlProps, defaultValue, fieldNamePrefix)
             ELSE enumGetHtml(type, field, controlProps, defaultValue, fieldNamePrefix)
  IN [r EXCEPT !.trace = <<fieldNamePrefix \o <<field.name>>>>]

----------------------------------------------------------------------------
\* Field-level and schema-level behaviours.

RECURSIVE fieldGetHtml(_, _, _, _), getHtmlFieldsFrom(_, _, _, _, _, _, _)

\* The loop without the test of uiExclude.
getHtmlFieldsFromAll(reg, schema, i, code, trace, defaultData, fieldNamePrefix) ==
  IF i > Len(schema.fields) THEN Return(code, trace)
  ELSE LET field == schema.fields[i]
           defaultValue == Get(defaultData, field.name)
           r == fieldGetHtml(reg, field, defaultValue, fieldNamePrefix)
       IN IF r.ok
            THEN getHtmlFieldsFrom(reg, schema, i + 1, code \o r.out \o <<NL>>,
                                   trace \o r.trace, defaultData, fieldNamePrefix)
            ELSE Throw(r.err, trace \o r.trace)

\* The for loop of getHtmlFields from field i on, code and trace accumulated.
getHtmlFieldsFrom(reg, schema, i, code, trace, defaultData, fieldNamePrefix) ==
  IF i > Len(schema.fields) THEN Return(code, trace)
  ELSE LET field == schema.fields[i] IN
       IF ~field.uiExclude
         THEN LET defaultValue == Get(defaultData, field.name)
                  r == fieldGetHtml(reg, field, defaultValue, fieldNamePrefix)
              IN IF r.ok
                   THEN getHtmlFieldsFrom(reg, schema, i + 1, code \o r.out \o <<NL>>,
                                          trace \o r.trace, defaultData, fieldNamePrefix)
                   ELSE Throw(r.err, trace \o r.trace)
         ELSE getHtmlFieldsFrom(reg, schema, i + 1, code, trace,
                                defaultData, fieldNamePrefix)

\* onSchema getHtmlFields
getHtmlFields(reg, schema, defaultData, fieldNamePrefix) ==
  getHtmlFieldsFrom(reg, schema, 1, <<>>, <<>>, defaultData, fieldNamePrefix)

\* A field whose type has no getHtml rendered as nothing instead of throwing.
fieldGetHtmlSkipping(reg, field, defaultValue, fieldNamePrefix) ==
  IF field.type.kind = "schema"
    THEN IF IsNil(defaultValue)
           THEN Throw("TypeError", <<>>)
           ELSE LET r == getHtmlFields(reg, field.type,
                                       Prop(defaultValue, field.name),
                                       fieldNamePrefix \o <<field.name, ".">>)
                IN IF r.ok
                     THEN Return(<<El("div", <<Attr("class", <<"_", field.type.collectionName, " _obj">>)>>, ""),
                                   NL,
                                   El("label", <<Attr("class", <<"_objLabel">>)>>, field.label),
                                   El("/label", <<>>, ""),
                                   NL>>
                                 \o r.out \o <<El("/div", <<>>, "")>>,
                                 r.trace)
                     ELSE r
  ELSE IF Resolve(reg, field.type) = "none"
    THEN Return(<<>>, <<>>)
  ELSE LET r == typeGetHtml(Resolve(reg, field.type), field.type, field, <<>>,
                            defaultValue, fieldNamePrefix)
       IN IF r.ok
            THEN Return(<<El("label", <<>>, field.label)>> \o r.out
                          \o <<El("/label", <<>>, "")>>, r.trace)
            ELSE r

\* onField getHtml
fieldGetHtml(reg, field, defaultValue, fieldNamePrefix) ==
  IF field.type.kind = "schema"
    THEN IF IsNil(defaultValue)
           THEN Throw("TypeError", <<>>)
           ELSE LET r == getHtmlFields(reg, field.type,
                                       Prop(defaultValue, field.name),
                                       fieldNamePrefix \o <<field.name, ".">>)
                IN IF r.ok
                     THEN Return(<<El("div", <<Attr("class", <<"_", field.type.collectionName, " _obj">>)>>, ""),
                                   NL,
                                   El("label", <<Attr("class", <<"_objLabel">>)>>, field.label),
                                   El("/label", <<>>, ""),
                                   NL>>
                                 \o r.out \o <<El("/div", <<>>, "")>>,
                                 r.trace)
                     ELSE r
  ELSE IF Resolve(reg, field.type) = "none"
    THEN Throw("UndefinedCapability", <<>>)
  ELSE LET r == typeGetHtml(Resolve(reg, field.type), field.type, field, <<>>,
                            defaultValue, fieldNamePrefix)
       IN IF r.ok
            THEN Return(<<El("label", <<>>, field.label)>> \o r.out
                          \o <<El("/label", <<>>, "")>>, r.trace)
            ELSE r

\* onSchema getHtmlForm
getHtmlForm(reg, schema, submitButtonName, hasFormProps, formProps, defaultData) ==
  LET r == getHtmlFields(reg, schema, defaultData, <<>>)
      submit == IF Truthy(submitButtonName)
                  THEN <<El("submit", <<Attr("type", <<"submit">>),
                                        Attr("value", <<ToText(submitButtonName)>>)>>, ""), NL>>
                ELSE IF submitButtonName.t # "null"
                  THEN <<El("submit", <<Attr("type", <<"submit">>)>>, ""), NL>>
                ELSE <<>>
  IN IF r.ok
       THEN Return(<<El("form", getPropsAsAttributeString(hasFormProps, formProps, ""), ""), NL>>
                     \o r.out \o submit \o <<El("/form", <<>>, ""), NL>>,
                   r.trace)
       ELSE r

----------------------------------------------------------------------------
\* The schemas, default data and options the calls are made with.

ChainNames == <<"address", "geo", "site", "unit", "cell">>

ChainLabels == <<"Address", "Geo", "Site", "Unit", "Cell">>

CollectionNames == <<"Person", "Address", "Geo", "Site", "Unit", "Cell">>

NoteLabels == <<"Note0", "Note1", "Note2", "Note3", "Note4", "Note5">>

Hints == {"", "select", "radio", "checkbox", "bogus"}

\* field.ui.presentation
PresentationOf(hint) == IF hint = "" THEN Undefined ELSE Str(hint)

LeafCfgs == [type : TypeNames, req : BOOLEAN, excl : BOOLEAN, hint : Hints]

NoSib == [type |-> "String", excl |-> FALSE, pos |-> "none"]

SibCfgs == {NoSib} \cup [type : {"String", "Text"}, excl : BOOLEAN, pos : {"before", "after"}]

LeafField(leaf) ==
  Field("zip", "Zip", TypeOf(leaf.type), leaf.req, leaf.excl, PresentationOf(leaf.hint))

NoteField(sib, k) ==
  Field("note", NoteLabels[k + 1], TypeOf(sib.type), FALSE, sib.excl, Undefined)

RECURSIVE SchemaAt(_, _)
\* The schema at nesting level k of a chain of cfg.depth composite fields that
\* ends in the leaf field, each level with the optional note field.
SchemaAt(cfg, k) ==
  LET main == IF k = cfg.depth
                THEN LeafField(cfg.leaf)
                ELSE Field(ChainNames[k + 1], ChainLabels[k + 1], SchemaAt(cfg, k + 1),
                           FALSE, FALSE, Undefined)
      note == NoteField(cfg.sib, k)
  IN Schema(CollectionNames[k + 1],
            CASE cfg.sib.pos = "before" -> <<note, main>>
              [] cfg.sib.pos = "after" -> <<main, note>>
              [] OTHER -> <<main>>)

\* The first field of the chain: the leaf itself when depth is 0.
TopField(cfg) ==
  IF cfg.depth = 0 THEN LeafField(cfg.leaf)
  ELSE Field(ChainNames[1], ChainLabels[1], SchemaAt(cfg, 1), FALSE, FALSE, Undefined)

LeafValues == {Null, Num(0), Num(1), Str("1"), Str("live"), Bool(TRUE)}

RECURSIVE ProperFrom(_, _, _), DoubledFrom(_, _, _)
\* { address: { geo: { zip: V } } }
ProperFrom(k, depth, val) ==
  IF k = depth THEN Obj1("zip", val)
  ELSE Obj1(ChainNames[k + 1], ProperFrom(k + 1, depth, val))

\* { address: { address: { geo: { geo: { zip: V } } } } }
DoubledFrom(k, depth, val) ==
  IF k = depth THEN Obj1("zip", val)
  ELSE Obj1(ChainNames[k + 1], Obj1(ChainNames[k + 1], DoubledFrom(k + 1, depth, val)))

DataFor(depth) ==
  {Undefined, Null, Obj(NoObj)}
    \cup {ProperFrom(0, depth, val) : val \in LeafValues}
    \cup {DoubledFrom(0, depth, val) : val \in LeafValues}

Prefixes == {<<>>, <<"p_">>}

ControlPropsSet ==
  { <<>>, <<P("class", Str("c"))>>, <<P("required", Str("required"))>> }

NoOpts == [controlProps |-> <<>>, submitButtonName |-> Undefined,
           hasFormProps |-> FALSE, formProps |-> <<>>]

----------------------------------------------------------------------------
\* State: the type registrations installed so far, and one call with its
\* arguments and its outcome.

VARIABLES registry, pc, op, cfg, data, prefix, opts, result

vars == <<registry, pc, op, cfg, data, prefix, opts, result>>

NoResult == [ok |-> FALSE, out |-> <<>>, err |-> "", trace |-> <<>>]

InitGetHtmlFields ==
  /\ op = "getHtmlFields"
  /\ cfg \in [depth : 0..MaxDepth, leaf : LeafCfgs, sib : SibCfgs]
  /\ data \in DataFor(cfg.depth)
  /\ prefix \in Prefixes
  /\ opts = NoOpts

InitGetHtmlForm ==
  /\ op = "getHtmlForm"
  /\ cfg \in [depth : 0..MaxDepth,
              leaf : [type : TypeNames, req : BOOLEAN, excl : {FALSE}, hint : {""}],
              sib : {NoSib}]
  /\ data \in DataFor(cfg.depth)
  /\ prefix = <<>>
  /\ opts \in [controlProps : {<<>>},
               submitButtonName : {Undefined, Null, Str("Go")},
               hasFormProps : {FALSE}, formProps : {<<>>}]
             \cup
             [controlProps : {<<>>},
              submitButtonName : {Undefined, Null, Str("Go")},
              hasFormProps : {TRUE}, formProps : {<<>>, <<P("id", Str("f"))>>}]

InitGetHtml ==
  /\ op = "getHtml"
  /\ cfg \in [depth : 0..MaxDepth,
              leaf : [type : TypeNames, req : BOOLEAN, excl : {FALSE}, hint : Hints],
              sib : {NoSib}]
  /\ data \in {Null} \cup {Get(d, TopField(cfg).name) : d \in DataFor(cfg.depth)}
  /\ prefix \in Prefixes
  /\ opts = NoOpts

InitTypeGetHtml ==
  /\ op = "typeGetHtml"
  /\ cfg \in [depth : {0},
              leaf : [type : {t \in TypeNames : Resolve(PluginOnType, TypeOf(t)) # "none"},
                      req : BOOLEAN, excl : {FALSE}, hint : Hints],
              sib : {NoSib}]
  /\ data \in {Undefined} \cup LeafValues
  /\ prefix \in Prefixes
  /\ opts \in [controlProps : ControlPropsSet, submitButtonName : {Undefined},
               hasFormProps : {FALSE}, formProps : {<<>>}]

\* The plugin has been loaded; a call is about to be made.
Init ==
  /\ registry = PluginOnType
  /\ pc = "ready"
  /\ result = NoResult
  /\ \/ InitGetHtmlFields
     \/ InitGetHtmlForm
     \/ InitGetHtml
     \/ InitTypeGetHtml

Done(r) ==
  /\ pc' = "done"
  /\ result' = r
  /\ UNCHANGED <<registry, op, cfg, data, prefix, opts>>

\* schema.getHtmlFields(defaultData, fieldNamePrefix)
CallGetHtmlFields ==
  /\ pc = "ready" /\ op = "getHtmlFields"
  /\ Done(getHtmlFields(registry, SchemaAt(cfg, 0), data, prefix))

\* schema.getHtmlForm(submitButtonName, formProps, defaultData)
CallGetHtmlForm ==
  /\ pc = "ready" /\ op = "getHtmlForm"
  /\ Done(getHtmlForm(registry, SchemaAt(cfg, 0), opts.submitButtonName,
                      opts.hasFormProps, opts.formProps, data))

\* field.getHtml(defaultValue, fieldNamePrefix)
CallGetHtml ==
  /\ pc = "ready" /\ op = "getHtml"
  /\ Done(fieldGetHtml(registry, TopField(cfg), data, prefix))

\* field.type.getHtml(field, controlProps, defaultValue, fieldNamePrefix)
CallTypeGetHtml ==
  /\ pc = "ready" /\ op = "typeGetHtml"
  /\ Resolve(registry, TopField(cfg).type) # "none"
  /\ Done(typeGetHtml(Resolve(registry, TopField(cfg).type), TopField(cfg).type,
                      TopField(cfg), opts.controlProps, data, prefix))

Next ==
  \/ CallGetHtmlFields
  \/ CallGetHtmlForm
  \/ CallGetHtml
  \/ CallTypeGetHtml

Spec == Init /\ [][Next]_vars

----------------------------------------------------------------------------
\* Loading: registrations are appended to the registry one mixin at a time.

RegistrationSet ==
  { Registration(StructPredicate("input"), "input"),
    Registration(KeyPredicate("enumValues"), "enum"),
    Registration(StructPredicate("textarea"), "textarea"),
    Registration(NoPredicate, "generic") }

NoCfg == [depth |-> 0,
          leaf |-> [type |-> "String", req |-> FALSE, excl |-> FALSE, hint |-> ""],
          sib |-> NoSib]

InitMixin ==
  /\ registry = <<>>
  /\ pc = "load"
  /\ op = "none"
  /\ cfg = NoCfg
  /\ data = Undefined
  /\ prefix = <<>>
  /\ opts = NoOpts
  /\ result = NoResult

\* OmniSchema.mixin({ onType: r })
mixin(r) ==
  /\ pc = "load"
  /\ Len(registry) < MaxRegs
  /\ registry' = Append(registry, r)
  /\ op' = "mixin"
  /\ UNCHANGED <<pc, cfg, data, prefix, opts, result>>

\* plugin(): OmniSchema.mixin({ ..., onType: [ input, enumValues ] })
plugin ==
  /\ pc = "load"
  /\ Len(registry) + Len(PluginOnType) <= MaxRegs
  /\ registry' = registry \o PluginOnType
  /\ op' = "plugin"
  /\ UNCHANGED <<pc, cfg, data, prefix, opts, result>>

NextMixin ==
  \/ \E r \in RegistrationSet : mixin(r)
  \/ plugin

SpecMixin == InitMixin /\ [][NextMixin]_vars

----------------------------------------------------------------------------
\* Reading the markup.

IsControl(el) == el.kind \in {"input", "select"}

ControlsOf(out) == {i \in DOMAIN out : IsControl(out[i])}

HasAttr(el, k) == \E j \in DOMAIN el.attrs : el.attrs[j].k = k

AttrOf(el, k) == el.attrs[CHOOSE j \in DOMAIN el.attrs : el.attrs[j].k = k].v

Last(seq) == seq[Len(seq)]

RECURSIVE PathFrom(_, _)
\* address . geo . zip
PathFrom(k, depth) ==
  IF k = depth THEN <<"zip">> ELSE <<ChainNames[k + 1], ".">> \o PathFrom(k + 1, depth)

\* The field names on the way to the leaf.
PathNames(depth) == [k \in 1..(depth + 1) |-> IF k <= depth THEN ChainNames[k] ELSE "zip"]

\* name.split('.') on a tokenised name
SplitDots(toks) == SelectSeq(toks, LAMBDA x : x # ".")

LeafName == prefix \o PathFrom(0, cfg.depth)

\* The controls rendered for the leaf field / for a note field.
LeafControls(out) ==
  {i \in ControlsOf(out) : HasAttr(out[i], "name") /\ Last(AttrOf(out[i], "name")) = "zip"}

NoteControls(out) ==
  {i \in ControlsOf(out) : HasAttr(out[i], "name") /\ Last(AttrOf(out[i], "name")) = "note"}

LeafType == TypeOf(cfg.leaf.type)

LeafBehaviour == Resolve(registry, LeafType)

HasNote == op \in {"getHtmlFields", "getHtmlForm"} /\ cfg.sib.pos # "none"

\* Some field that is rendered has a type without getHtml.
LeafMissing == ~cfg.leaf.excl /\ LeafBehaviour = "none"

NoteMissing == HasNote /\ ~cfg.sib.excl /\ Resolve(registry, TypeOf(cfg.sib.type)) = "none"

HasMissing == LeafMissing \/ NoteMissing

\* The checkbox presentation applies to the leaf's type.
CheckboxApplies == cfg.leaf.hint = "checkbox" /\ LeafType.jsType = "boolean"

\* The outcome of the call op on configuration c, the other arguments as called.
OutcomeWith(c) ==
  CASE op = "getHtmlFields" -> getHtmlFields(registry, SchemaAt(c, 0), data, prefix)
    [] op = "getHtmlForm" ->
         getHtmlForm(registry, SchemaAt(c, 0), opts.submitButtonName,
                     opts.hasFormProps, opts.formProps, data)
    [] op = "getHtml" -> fieldGetHtml(registry, TopField(c), data, prefix)
    [] OTHER -> typeGetHtml(Resolve(registry, TopField(c).type), TopField(c).type,
                            TopField(c), opts.controlProps, data, prefix)

----------------------------------------------------------------------------
\* Properties.

Max(S) == CHOOSE x \in S : \A y \in S : y <= x

MatchingAt(type) == {i \in 1..Len(registry) : matches(type, registry[i].matches)}

\* Types whose traits satisfy both predicates of the plugin.
BothTypes ==
  {t \in TypeNames : /\ matches(TypeOf(t), StructPredicate("input"))
                     /\ matches(TypeOf(t), KeyPredicate("enumValues"))}

\* C1: the behaviour resolved for a type is the one of the last registration,
\* in registration order, whose predicate matches the type's traits ("none"
\* when no registration matches); two types matched by the same registrations
\* resolve alike whatever their names; right after the plugin's registrations
\* a type satisfying both predicates has the enumeration behaviour, and right
\* after the two registrations in swapped order it has the input behaviour.
C1_LastMatchingRegistrationWins ==
  /\ \A t \in TypeNames :
       Resolve(registry, TypeOf(t)) =
         IF MatchingAt(TypeOf(t)) = {} THEN "none"
         ELSE registry[Max(MatchingAt(TypeOf(t)))].func
  /\ \A t1, t2 \in TypeNames :
       MatchingAt(TypeOf(t1)) = MatchingAt(TypeOf(t2))
         => Resolve(registry, TypeOf(t1)) = Resolve(registry, TypeOf(t2))
  /\ op = "plugin" => \A t \in BothTypes : Resolve(registry, TypeOf(t)) = "enum"
  /\ (Len(registry) >= 2
      /\ SubSeq(registry, Len(registry) - 1, Len(registry)) = SwappedOnType)
       => \A t \in BothTypes : Resolve(registry, TypeOf(t)) = "input"

\* The plugin is loaded after the two registrations were made in swapped order,
\* and a type satisfying both predicates has moved from input to enumeration.
C1_Witness ==
  /\ op = "plugin"
  /\ Len(registry) = 4
  /\ SubSeq(registry, 1, 2) = SwappedOnType
  /\ Resolve(SubSeq(registry, 1, 2), TCode) = "input"
  /\ Resolve(registry, TCode) = "enum"
  /\ Resolve(registry, TLevel) = "enum"

ReqOf(el) == IF Last(AttrOf(el, "name")) = "zip" THEN cfg.leaf.req ELSE FALSE

TypeOfControl(el) ==
  IF Last(AttrOf(el, "name")) = "zip" THEN LeafType ELSE TypeOf(cfg.sib.type)

\* C4 as stated: a control carries the required marker if and only if its
\* field's required flag is set.
C4_RequiredIffFlag ==
  pc = "done" =>
    \A i \in ControlsOf(result.out) :
      HasAttr(result.out[i], "required") <=> ReqOf(result.out[i])

\* C4, amended: every control of a required field carries the required marker;
\* a control of a non-required field carries one only when it is an input
\* element and the type's htmlSpec or the caller's options themselves hold a
\* required attribute, which the input and radio renderers copy into the markup.
C4_RequiredMarker ==
  pc = "done" =>
    \A i \in ControlsOf(result.out) :
      LET el == result.out[i] IN
      /\ ReqOf(el) => HasAttr(el, "required")
      /\ (HasAttr(el, "required") /\ ~ReqOf(el)) =>
           /\ el.kind = "input"
           /\ \/ HasKey(TypeOfControl(el).htmlSpec, "required")
              \/ HasKey(opts.controlProps, "required")

\* A required enumeration field rendered as radio inputs below a non-required
\* note field: both radio inputs carry the marker, the note's input does not.
C4_Witness ==
  /\ pc = "done" /\ op = "getHtmlFields" /\ result.ok
  /\ cfg.leaf.req /\ cfg.leaf.hint = "radio" /\ cfg.leaf.type = "Level"
  /\ Cardinality(LeafControls(result.out)) = 2
  /\ \A i \in LeafControls(result.out) : HasAttr(result.out[i], "required")
  /\ NoteControls(result.out) # {}
  /\ \A i \in NoteControls(result.out) : ~HasAttr(result.out[i], "required")

RECURSIVE ExpectedLabels(_, _)
\* The labels of the fields that are not excluded, in declaration order.
ExpectedLabels(c, k) ==
  LET main == IF k = c.depth
                THEN (IF c.leaf.excl THEN <<>> ELSE <<"Zip">>)
                ELSE <<ChainLabels[k + 1]>> \o ExpectedLabels(c, k + 1)
      note == IF c.sib.excl THEN <<>> ELSE <<NoteLabels[k + 1]>>
  IN CASE c.sib.pos = "before" -> note \o main
       [] c.sib.pos = "after" -> main \o note
       [] OTHER -> main

LabelsOf(out) ==
  LET labels == SelectSeq(out, LAMBDA e : e.kind = "label")
  IN [i \in 1..Len(labels) |-> labels[i].text]

RECURSIVE ExcludedNamesFrom(_, _, _)
\* The control names the excluded fields would have.
ExcludedNamesFrom(c, k, pfx) ==
  (IF c.sib.pos # "none" /\ c.sib.excl THEN {pfx \o <<"note">>} ELSE {})
  \cup (IF k = c.depth
          THEN (IF c.leaf.excl THEN {pfx \o <<"zip">>} ELSE {})
          ELSE ExcludedNamesFrom(c, k + 1, pfx \o <<ChainNames[k + 1], ".">>))

RECURSIVE ConcatRenderings(_, _, _)
\* The renderings of the given fields, each followed by a newline.
ConcatRenderings(fields, defaultData, pfx) ==
  IF fields = <<>> THEN <<>>
  ELSE fieldGetHtml(registry, Head(fields), Get(defaultData, Head(fields).name), pfx).out
       \o <<NL>> \o ConcatRenderings(Tail(fields), defaultData, pfx)

\* The part of the markup between the form's opening and its submit button;
\* the whole markup for getHtmlFields.
FieldsMarkup(out, len) ==
  IF op = "getHtmlForm" THEN SubSeq(out, 3, 2 + len) ELSE out

\* C5: the markup of getHtmlFields (also inside getHtmlForm and inside
\* composite fields) is the renderings of the fields that are not excluded, in
\* declaration order; an excluded field has no control and no label in the
\* markup and its type behaviour is never invoked.
C5_ExcludedFieldsNeverRendered ==
  (pc = "done" /\ op \in {"getHtmlFields", "getHtmlForm"}) =>
    /\ \A i \in DOMAIN result.trace :
         result.trace[i] \notin ExcludedNamesFrom(cfg, 0, prefix)
    /\ result.ok =>
         /\ \A i \in ControlsOf(result.out) :
              AttrOf(result.out[i], "name") \notin ExcludedNamesFrom(cfg, 0, prefix)
         /\ LabelsOf(result.out) = ExpectedLabels(cfg, 0)
         /\ LET fields == SelectSeq(SchemaAt(cfg, 0).fields, LAMBDA f : ~f.uiExclude)
                expected == ConcatRenderings(fields, data, prefix)
            IN FieldsMarkup(result.out, Len(expected)) = expected

\* A nested schema whose note field, declared first at each level, is excluded:
\* the call returns markup for the chain and the leaf only.
C5_Witness ==
  /\ pc = "done" /\ op = "getHtmlFields" /\ result.ok
  /\ cfg.depth = 1 /\ cfg.sib.pos = "before" /\ cfg.sib.excl
  /\ ~cfg.leaf.excl
  /\ LabelsOf(result.out) = <<"Address", "Zip">>
  /\ Len(result.trace) = 1

\* The leaf is an enumeration field whose presentation hint is unrecognised or
\* does not apply to its type.
InapplicableHint ==
  /\ LeafBehaviour = "enum"
  /\ \/ cfg.leaf.hint \notin {"", "select", "radio", "checkbox"}
     \/ cfg.leaf.hint = "checkbox" /\ LeafType.jsType # "boolean"

\* C6: with an unrecognised or inapplicable presentation hint an enumeration
\* field renders exactly as with no hint at all, other arguments equal; the
\* type behaviour and the field's getHtml then return without raising, and the
\* markup is the select list, never empty.
C6_InapplicableHintIsNoHint ==
  (pc = "done" /\ InapplicableHint) =>
    /\ result = OutcomeWith([cfg EXCEPT !.leaf.hint = ""])
    /\ (op \in {"typeGetHtml", "getHtml"} /\ cfg.depth = 0) =>
         /\ result.ok
         /\ result.out # <<>>
         /\ \E i \in LeafControls(result.out) : result.out[i].kind = "select"

\* The checkbox presentation requested for an enumeration of text values.
C6_Witness ==
  /\ pc = "done" /\ op = "typeGetHtml" /\ InapplicableHint
  /\ cfg.leaf.hint = "checkbox" /\ cfg.leaf.type = "Code"
  /\ result.ok
  /\ result.out[1].kind = "select"

\* C7: when a field that is rendered (not excluded, at any nesting depth) has
\* a type without getHtml behaviour, the call raises and returns no markup at
\* all; when every rendered field has a behaviour, the call never raises the
\* error of the undefined capability.
C7_UndefinedCapabilityIsFatal ==
  (pc = "done" /\ op \in {"getHtmlFields", "getHtmlForm", "getHtml"}) =>
    /\ HasMissing => (~result.ok /\ result.out = <<>>)
    /\ ~HasMissing => result.err # "UndefinedCapability"

\* The field without behaviour comes after a field that was rendered: the
\* markup built so far is not returned.
C7_Witness ==
  /\ pc = "done" /\ op = "getHtmlFields"
  /\ cfg.depth = 1 /\ cfg.sib.pos = "before" /\ ~cfg.sib.excl /\ cfg.sib.type = "String"
  /\ cfg.leaf.type = "Text" /\ ~cfg.leaf.excl
  /\ result.err = "UndefinedCapability"
  /\ Len(result.trace) = 2
  /\ result.out = <<>>

\* The enumerated values an enumeration rendering marks as selected or checked,
\* by position.
MarkedValues(out) ==
  LET options == SelectSeq(out, LAMBDA e : e.kind \in {"option", "input"})
  IN {i \in 1..Len(options) :
        HasAttr(options[i], "selected") \/ HasAttr(options[i], "checked")}

OptionValues(out) ==
  LET options == SelectSeq(out, LAMBDA e : e.kind \in {"option", "input"})
  IN [i \in 1..Len(options) |-> AttrOf(options[i], "value")]

\* C2 as stated: the select and the radio renderer mark exactly the enumerated
\* values whose text equals the text of the supplied default, and list the
\* values in declaration order.
C2_MarksValueEqualToDefault ==
  (/\ pc = "done" /\ op = "typeGetHtml" /\ LeafBehaviour = "enum"
   /\ cfg.leaf.hint \in {"select", "radio"}
   /\ ~IsNil(data) /\ result.ok) =>
    /\ OptionValues(result.out) =
         [i \in 1..Len(LeafType.enumValues) |-> <<ToText(LeafType.enumValues[i].value)>>]
    /\ MarkedValues(result.out) =
         {i \in 1..Len(LeafType.enumValues) :
            ToText(LeafType.enumValues[i].value) = ToText(data)}

\* C3 as stated: rendering a chain of composite fields down to a leaf whose
\* type has a behaviour yields the leaf's control, named by the prefix and the
\* dotted path of field names, for every depth and presentation.
C3_LeafControlNamedByPath ==
  (/\ pc = "done" /\ op = "getHtmlFields"
   /\ ~cfg.leaf.excl /\ ~HasMissing) =>
    /\ result.ok
    /\ LeafControls(result.out) # {}
    /\ \A i \in LeafControls(result.out) :
         /\ AttrOf(result.out[i], "name") = LeafName
         /\ SplitDots(SubSeq(AttrOf(result.out[i], "name"), Len(prefix) + 1,
                             Len(AttrOf(result.out[i], "name"))))
              = PathNames(cfg.depth)

\* Every control that is emitted is named by the prefix and the dotted path of
\* its field.
EmittedNamesArePaths ==
  pc = "done" =>
    \A i \in LeafControls(result.out) :
      /\ AttrOf(result.out[i], "name") = LeafName
      /\ SplitDots(SubSeq(LeafName, Len(prefix) + 1, Len(LeafName))) = PathNames(cfg.depth)

\* No field of the call has a default value.
AbsentDefault ==
  \/ op \in {"getHtml", "typeGetHtml"} /\ IsNil(data)
  \/ /\ op \in {"getHtmlFields", "getHtmlForm"}
     /\ \/ IsNil(data)
        \/ data = Obj(NoObj)
        \/ cfg.depth = 0 /\ data = Obj1("zip", Null)

\* C8 as stated: rendering with an absent default is not an error and leaves
\* every control unset: no value on an input, no option selected, no radio or
\* checkbox checked; for input, enumeration and composite fields alike.
C8_AbsentDefaultRendersUnset ==
  (/\ pc = "done" /\ AbsentDefault
   /\ ~HasMissing /\ ~(LeafBehaviour = "enum" /\ CheckboxApplies)) =>
    /\ result.ok
    /\ \A i \in DOMAIN result.out :
         /\ ~HasAttr(result.out[i], "selected")
         /\ ~HasAttr(result.out[i], "checked")
         /\ (result.out[i].kind = "input" /\ result.out[i].attrs # <<>>
             /\ AttrOf(result.out[i], "type") \notin {<<"radio">>, <<"checkbox">>})
              => ~HasAttr(result.out[i], "value")

\* The default data nests the leaf's value under the names of the chain.
ProperData ==
  \E val \in LeafValues \ {Null} : data = ProperFrom(0, cfg.depth, val)

ProperValue == CHOOSE val \in LeafValues \ {Null} : data = ProperFrom(0, cfg.depth, val)

\* C9 as stated: getHtmlFields renders each field with the default found under
\* its name in the default data of its enclosing schema, a composite field's
\* inner schema against D[F.name], so a leaf input shows D[f1]...[fn].
C9_NestedDefaultPopulatesLeaf ==
  (/\ pc = "done" /\ op = "getHtmlFields" /\ ProperData
   /\ LeafBehaviour = "input" /\ ~cfg.leaf.excl /\ ~HasMissing) =>
    /\ result.ok
    /\ LeafControls(result.out) # {}
    /\ \A i \in LeafControls(result.out) :
         /\ HasAttr(result.out[i], "value")
         /\ AttrOf(result.out[i], "value") = <<ToText(ProperValue)>>

InputsOfType(out, type) ==
  {i \in DOMAIN out : /\ out[i].kind = "input"
                      /\ HasAttr(out[i], "type")
                      /\ AttrOf(out[i], "type") = <<type>>}

\* C10 as stated: an applicable presentation hint dispatches to its renderer
\* without raising: select gives the select list, radio one radio input per
\* enumerated value, checkbox on a boolean type a single checkbox input that
\* is checked iff the default is truthy.
C10_HintDispatchesToRenderer ==
  (/\ pc = "done" /\ op = "typeGetHtml" /\ LeafBehaviour = "enum"
   /\ \/ cfg.leaf.hint \in {"select", "radio"}
      \/ CheckboxApplies) =>
    /\ result.ok
    /\ cfg.leaf.hint = "select" =>
         /\ result.out[1].kind = "select"
         /\ Len(SelectSeq(result.out, LAMBDA e : e.kind = "option"))
              = Len(LeafType.enumValues)
    /\ cfg.leaf.hint = "radio" =>
         Cardinality(InputsOfType(result.out, "radio")) = Len(LeafType.enumValues)
    /\ cfg.leaf.hint = "checkbox" =>
         /\ Cardinality(ControlsOf(result.out)) = 1
         /\ Cardinality(InputsOfType(result.out, "checkbox")) = 1
         /\ \A i \in ControlsOf(result.out) :
              HasAttr(result.out[i], "checked") <=> Truthy(data)

====
